---- MODULE Spec2Model ----
(***************************************************************************)
(* kafka_serde: the Kafka wire codec of src/src/ser.rs (KafkaSerializer,   *)
(* to_writer) and src/src/de.rs (KafkaDeserializer, from_bytes), with the  *)
(* error type of src/src/error.rs.                                         *)
(*                                                                         *)
(* Representation.  A byte is a number in 0..255 and a buffer a sequence   *)
(* of bytes.  Values of i8, u8, i16, u16 and i32 are integers.  TLC's      *)
(* integers are 32 bits wide, so a value of u32, i64, u64 or f64 is the    *)
(* sequence of its 16-bit limbs, most significant limb first (u32 16 is    *)
(* <<0, 16>>, i64 -1 is <<65535, 65535, 65535, 65535>>, an f64 is its      *)
(* IEEE-754 bit pattern).  A usize that came from a negative i16 or i32 by *)
(* `as usize` is kept as that negative number n and stands for 2^64 + n.   *)
(***************************************************************************)
EXTENDS Integers, Sequences, FiniteSets, TLC

VARIABLES
    buf,      \* KafkaDeserializer.buf
    pos,      \* KafkaDeserializer.pos
    writer,   \* KafkaSerializer.writer: [data, cap]
    phase,    \* "ser": before from_bytes, "de": a decoder is live
    op,       \* the last handler that ran
    arg,      \* what it was asked for: a shape (decode) or a value (encode)
    pos0,     \* pos when it started
    w0,       \* writer.data when it started
    res,      \* what it returned
    sent,     \* the value whose encoding from_bytes was given
    fmt       \* the Formatter an error is displayed to, and the calls of
              \* Display::fmt that have not returned: [stack, out, st]

vars == <<buf, pos, writer, phase, op, arg, pos0, w0, res, sent, fmt>>

(***************************************************************************)
(* Bounds of the model.                                                    *)
(***************************************************************************)
MaxBuf == 5       \* longest buffer handed to from_bytes as is
MaxStr == 2       \* longest string drawn as an input of to_writer
MaxSeq == 2       \* longest sequence drawn as an input of to_writer
MaxCap == 7       \* largest capacity of a fixed-size writer

\* The bytes the drawn buffers are made of: 0 and 1 (lengths, counts, the
\* booleans) and 0xFF (the -1 sentinel, the sign bit, a byte that is no boolean
\* and never part of UTF-8).  Longer and richer buffers are those to_writer
\* produces.
ByteVals == {0, 1, 255}

RECURSIVE SeqsUpTo(_, _)
SeqsUpTo(S, n) ==
    IF n = 0 THEN {<<>>}
    ELSE LET shorter == SeqsUpTo(S, n - 1)
         IN  shorter \cup {Append(s, x) : s \in {t \in shorter : Len(t) = n - 1}, x \in S}

None == [k |-> "none"]

(***************************************************************************)
(* error.rs: ErrorKind                                                     *)
(***************************************************************************)
NotEnoughBytes == [kind |-> "NotEnoughBytes"]
InvalidStringEncoding == [kind |-> "InvalidStringEncoding"]
InvalidBoolEncoding(b) == [kind |-> "InvalidBoolEncoding", byte |-> b]
TypeNotSupported(s) == [kind |-> "TypeNotSupported", what |-> s]
Io == [kind |-> "Io"]
Custom(s) == [kind |-> "Custom", msg |-> s]

\* Result<T> of a decoder step, with the cursor it leaves behind.  "panic" is
\* a Rust panic: the call aborts instead of returning.
Ok(v, p) == [st |-> "ok", val |-> v, err |-> None, pos |-> p]
Err(e, p) == [st |-> "err", val |-> None, err |-> e, pos |-> p]
Panic(p) == [st |-> "panic", val |-> None, err |-> None, pos |-> p]

(***************************************************************************)
(* Fixed-width scalars                                                     *)
(***************************************************************************)
IntTypes == {"i8", "u8", "i16", "u16", "i32"}
LimbTypes == {"u32", "i64", "u64", "f64"}
ScalarTypes == IntTypes \cup LimbTypes \cup {"bool"}

\* std::mem::size_of::<T>()
size_of(ty) ==
    CASE ty \in {"bool", "i8", "u8"} -> 1
      [] ty \in {"i16", "u16"} -> 2
      [] ty \in {"i32", "u32"} -> 4
      [] ty \in {"i64", "u64", "f64"} -> 8

Signed(ty) == ty \in {"i8", "i16", "i32", "i64"}

Pow256(n) == CASE n = 0 -> 1 [] n = 1 -> 256 [] n = 2 -> 65536 [] n = 3 -> 16777216

\* A mutation of to_be_bytes: the least significant byte first.
to_le_bytes(ty, v) ==
    LET w == size_of(ty) IN
    IF ty \in IntTypes
    THEN [i \in 1..w |-> (v \div Pow256(i - 1)) % 256]
    ELSE [i \in 1..w |-> LET l == v[(w - i) \div 2 + 1]
                         IN  IF i % 2 = 1 THEN l % 256 ELSE l \div 256]

\* T::to_be_bytes: the two's-complement representation, most significant byte
\* first.
to_be_bytes(ty, v) ==
    LET w == size_of(ty) IN
    IF ty \in IntTypes
    THEN [i \in 1..w |-> (v \div Pow256(w - i)) % 256]
    ELSE [i \in 1..w |-> LET l == v[(i + 1) \div 2]
                         IN  IF i % 2 = 1 THEN l \div 256 ELSE l % 256]

\* The integer a big-endian two's-complement byte string stands for.
from_be_bytes(ty, b) ==
    LET w == size_of(ty)
        top == IF Signed(ty) /\ b[1] >= 128 THEN b[1] - 256 ELSE b[1]
    IN  CASE w = 1 -> top
          [] w = 2 /\ ty \in IntTypes -> top * 256 + b[2]
          [] w = 4 /\ ty \in IntTypes -> top * 16777216 + b[2] * 65536 + b[3] * 256 + b[4]
          [] OTHER -> [j \in 1..(w \div 2) |-> b[2 * j - 1] * 256 + b[2 * j]]

(***************************************************************************)
(* std::str::from_utf8 / String::from_utf8: whether a byte string is       *)
(* well-formed UTF-8 (RFC 3629, as the standard library checks it).        *)
(***************************************************************************)
IsCont(b) == b >= 128 /\ b <= 191

\* The number of bytes of the character a lead byte opens; 0 for a byte that
\* opens none.
Utf8Width(b) ==
    CASE b < 128 -> 1
      [] b >= 194 /\ b <= 223 -> 2
      [] b >= 224 /\ b <= 239 -> 3
      [] b >= 240 /\ b <= 244 -> 4
      [] OTHER -> 0

\* The range of the first continuation byte after lead byte b.
Utf8SecondOk(b, c) ==
    CASE b = 224 -> c >= 160 /\ c <= 191
      [] b = 237 -> c >= 128 /\ c <= 159
      [] b = 240 -> c >= 144 /\ c <= 191
      [] b = 244 -> c >= 128 /\ c <= 143
      [] OTHER -> IsCont(c)

IsUtf8(s) ==
    LET n == Len(s)
        LeadOk(i) ==
            LET k == Utf8Width(s[i]) IN
            /\ k > 0
            /\ i + k - 1 <= n
            /\ k >= 2 => Utf8SecondOk(s[i], s[i + 1])
            /\ \A j \in (i + 2)..(i + k - 1) : IsCont(s[j])
        Covered(i) ==
            \E d \in 1..3 :
                /\ i - d >= 1
                /\ Utf8Width(s[i - d]) > d
                /\ \A j \in (i - d + 1)..(i - 1) : IsCont(s[j])
    IN  \A i \in 1..n : IF IsCont(s[i]) THEN Covered(i) ELSE LeadOk(i)

(***************************************************************************)
(* de.rs: KafkaDeserializer.  Every operator takes the buffer b and the    *)
(* position p and returns the result together with the position it leaves. *)
(* oc says whether the build checks integer overflow (debug) or wraps      *)
(* (release): usize arithmetic is the only place the two builds differ.    *)
(***************************************************************************)

\* A mutation of check_room: the room is never missing.
check_room_always(b, p, room, oc) == "ok"

\* check_room: "ok", "err" (NotEnoughBytes) or "panic" (pos + room overflows
\* usize in a build that checks it).  A negative room stands for 2^64 + room.
\* (pos + room > len is written room > len - pos where the sum does not wrap.)
check_room(b, p, room, oc) ==
    IF room < 0 /\ p + room >= 0
    THEN IF oc THEN "panic" ELSE (IF p + room > Len(b) THEN "err" ELSE "ok")
    ELSE IF room < 0 \/ room > Len(b) - p THEN "err" ELSE "ok"

check_room_for(b, p, ty, oc) == check_room(b, p, size_of(ty), oc)

\* slice: the next len bytes, borrowed.  `self.pos += len` wraps where overflow
\* is unchecked, and the range begin..pos panics when it is not a range of buf.
slice(b, p, len, oc) ==
    LET room == check_room(b, p, len, oc)
        end == p + len
    IN  CASE room = "err" -> Err(NotEnoughBytes, p)
          [] room = "panic" -> Panic(p)
          [] OTHER -> IF p <= end /\ end <= Len(b)
                      THEN Ok(SubSeq(b, p + 1, end), end)
                      ELSE Panic(end)

\* copy_slice: the next len bytes, copied.  Vec::with_capacity panics on a
\* capacity above isize::MAX.
copy_slice(b, p, len, oc) ==
    LET room == check_room(b, p, len, oc)
        end == p + len
    IN  CASE room = "err" -> Err(NotEnoughBytes, p)
          [] room = "panic" -> Panic(p)
          [] OTHER -> IF len >= 0 /\ p <= end /\ end <= Len(b)
                      THEN Ok(SubSeq(b, p + 1, end), end)
                      ELSE Panic(end)

\* read_i8 / read_u8: check_room_for, then buf[pos] (which panics past the end).
read_byte(b, p, ty, oc) ==
    LET room == check_room_for(b, p, ty, oc) IN
    CASE room = "err" -> Err(NotEnoughBytes, p)
      [] room = "panic" -> Panic(p)
      [] OTHER -> IF p < Len(b)
                  THEN Ok(from_be_bytes(ty, <<b[p + 1]>>), p + size_of(ty))
                  ELSE Panic(p)

\* A mutation of read_wide: the bytes are taken least significant first.
read_wide_le(b, p, ty, oc) ==
    LET w == size_of(ty) IN
    IF p > Len(b) THEN Panic(p)
    ELSE IF Len(b) - p < w THEN Err(NotEnoughBytes, p)
    ELSE Ok(from_be_bytes(ty, [i \in 1..w |-> b[p + w + 1 - i]]), p + w)

\* read_i16 .. read_u64 and the read of deserialize_f64: endianness::read_*
\* on &buf[pos..] (the slicing panics when pos > len; the read fails on fewer
\* than size_of::<T>() bytes, which From<EndiannessError> turns into
\* NotEnoughBytes), then pos += size_of::<T>().
read_wide(b, p, ty, oc) ==
    LET w == size_of(ty) IN
    IF p > Len(b) THEN Panic(p)
    ELSE IF Len(b) - p < w THEN Err(NotEnoughBytes, p)
    ELSE Ok(from_be_bytes(ty, SubSeq(b, p + 1, p + w)), p + w)

read_int(b, p, ty, oc) ==
    IF size_of(ty) = 1 THEN read_byte(b, p, ty, oc) ELSE read_wide(b, p, ty, oc)

\* A mutation of deserialize_bool: every non-zero byte is true.
deserialize_bool_lenient(b, p, oc) ==
    LET r == read_byte(b, p, "u8", oc) IN
    IF r.st # "ok" THEN r ELSE Ok(r.val # 0, r.pos)

deserialize_bool(b, p, oc) ==
    LET r == read_byte(b, p, "u8", oc) IN
    IF r.st # "ok" THEN r
    ELSE CASE r.val = 0 -> Ok(FALSE, r.pos)
           [] r.val = 1 -> Ok(TRUE, r.pos)
           [] OTHER -> Err(InvalidBoolEncoding(r.val), r.pos)

\* deserialize_i8 .. deserialize_u64, deserialize_f64
deserialize_scalar(b, p, ty, oc) ==
    IF ty = "bool" THEN deserialize_bool(b, p, oc) ELSE read_int(b, p, ty, oc)

\* A mutation of deserialize_str: only a zero length is the empty string.
deserialize_str_no_null(b, p, oc) ==
    LET l == read_int(b, p, "i16", oc) IN
    IF l.st # "ok" THEN l
    ELSE IF l.val = 0 THEN Ok(<<>>, l.pos)
    ELSE LET s == slice(b, l.pos, l.val, oc) IN
         IF s.st # "ok" THEN s
         ELSE IF IsUtf8(s.val) THEN s ELSE Err(InvalidStringEncoding, s.pos)

deserialize_str(b, p, oc) ==
    LET l == read_int(b, p, "i16", oc) IN
    IF l.st # "ok" THEN l
    ELSE IF l.val = 0 \/ l.val = -1 THEN Ok(<<>>, l.pos)
    ELSE LET s == slice(b, l.pos, l.val, oc) IN
         IF s.st # "ok" THEN s
         ELSE IF IsUtf8(s.val) THEN s ELSE Err(InvalidStringEncoding, s.pos)

deserialize_string(b, p, oc) ==
    LET l == read_int(b, p, "i16", oc) IN
    IF l.st # "ok" THEN l
    ELSE IF l.val = 0 \/ l.val = -1 THEN Ok(<<>>, l.pos)
    ELSE LET s == copy_slice(b, l.pos, l.val, oc) IN
         IF s.st # "ok" THEN s
         ELSE IF IsUtf8(s.val) THEN s ELSE Err(InvalidStringEncoding, s.pos)

\* A mutation of deserialize_bytes: the length prefix is read as an i16.
deserialize_bytes_short(b, p, oc) ==
    LET l == read_int(b, p, "i16", oc) IN
    IF l.st # "ok" THEN l
    ELSE IF l.val = 0 \/ l.val = -1 THEN Ok(<<>>, l.pos)
    ELSE slice(b, l.pos, l.val, oc)

deserialize_bytes(b, p, oc) ==
    LET l == read_int(b, p, "i32", oc) IN
    IF l.st # "ok" THEN l
    ELSE IF l.val = 0 \/ l.val = -1 THEN Ok(<<>>, l.pos)
    ELSE slice(b, l.pos, l.val, oc)

\* The requests that are answered with type_not_supported!, and the label each
\* carries.
Unsupported ==
    [any |-> "de-deserialize-any", f32 |-> "de-f32", unit |-> "de-unit",
     char |-> "de-char", byte_buf |-> "de-byte-buf", option |-> "de-option",
     unit_struct |-> "de-unit-struct", newtype_struct |-> "de-newtype",
     tuple_struct |-> "de-tuple-struct", map |-> "de-map", enum |-> "de-enum",
     identifier |-> "de-identifier", ignored_any |-> "de-ignored-any"]

\* A mutation of deserialize_unsupported: the request is answered with an
\* empty value.
deserialize_unsupported_as_unit(b, p, kind) == Ok(<<>>, p)

deserialize_unsupported(b, p, kind) == Err(TypeNotSupported(Unsupported[kind]), p)

RECURSIVE deserialize(_, _, _, _)
RECURSIVE next_elements(_, _, _, _, _, _)
RECURSIVE next_fields(_, _, _, _, _, _)

\* A mutation of deserialize_seq: a count of -1 is not turned into 0.
deserialize_seq_raw(elem, b, p, oc) ==
    LET l == read_int(b, p, "i32", oc) IN
    IF l.st # "ok" THEN l
    ELSE next_elements(elem, l.val, b, l.pos, <<>>, oc)

\* deserialize_seq: the count, -1 read as 0, then deserialize_tuple with it.
\* The visitor is Vec<T>'s, which asks for the next element until the access
\* has none left.
deserialize_seq(elem, b, p, oc) ==
    LET l == read_int(b, p, "i32", oc) IN
    IF l.st # "ok" THEN l
    ELSE next_elements(elem, IF l.val = -1 THEN 0 ELSE l.val, b, l.pos, <<>>, oc)

\* Access::next_element_seed under Vec<T>'s visitor: n elements are left.  (A
\* negative n stands for 2^64 + n, which no buffer can use up: it stays.)
next_elements(elem, n, b, p, acc, oc) ==
    IF n = 0 THEN Ok(acc, p)
    ELSE LET r == deserialize(elem, b, p, oc) IN
         IF r.st # "ok" THEN r
         ELSE next_elements(elem, IF n < 0 THEN n ELSE n - 1, b, r.pos,
                            Append(acc, r.val), oc)

\* A mutation of deserialize_tuple: the elements are asked for last first.
deserialize_tuple_reversed(shapes, b, p, oc) ==
    LET n == Len(shapes)
        r == next_fields([i \in 1..n |-> shapes[n + 1 - i]], 1, b, p, <<>>, oc)
    IN  IF r.st # "ok" THEN r ELSE Ok([i \in 1..n |-> r.val[n + 1 - i]], r.pos)

\* deserialize_tuple(len, visitor) under the visitor of a tuple, an array or a
\* derived struct: it asks for its len elements one after another.
deserialize_tuple(shapes, b, p, oc) == next_fields(shapes, 1, b, p, <<>>, oc)

next_fields(shapes, i, b, p, acc, oc) ==
    IF i > Len(shapes) THEN Ok(acc, p)
    ELSE LET r == deserialize(shapes[i], b, p, oc) IN
         IF r.st # "ok" THEN r
         ELSE next_fields(shapes, i + 1, b, r.pos, Append(acc, r.val), oc)

\* deserialize_struct: deserialize_tuple(fields.len(), visitor)
deserialize_struct(fields, b, p, oc) == deserialize_tuple(fields, b, p, oc)

\* T::deserialize(&mut k_der): the request the type T makes of the decoder.
deserialize(shape, b, p, oc) ==
    CASE shape.k \in ScalarTypes -> deserialize_scalar(b, p, shape.k, oc)
      [] shape.k = "str" -> deserialize_str(b, p, oc)
      [] shape.k = "string" -> deserialize_string(b, p, oc)
      [] shape.k = "bytes" -> deserialize_bytes(b, p, oc)
      [] shape.k = "seq" -> deserialize_seq(shape.elem, b, p, oc)
      [] shape.k = "tuple" -> deserialize_tuple(shape.elems, b, p, oc)
      [] shape.k = "struct" -> deserialize_struct(shape.fields, b, p, oc)
      [] OTHER -> deserialize_unsupported(b, p, shape.k)

(***************************************************************************)
(* ser.rs: KafkaSerializer.  The writer is [data, cap]: the bytes written  *)
(* so far and the capacity of the sink, Unbounded for a growable one (a    *)
(* Vec or a Cursor over one).  A serializer step returns st, err and the   *)
(* writer it leaves.                                                       *)
(***************************************************************************)
Unbounded == -1

WOk(w) == [st |-> "ok", err |-> None, w |-> w]
WErr(e, w) == [st |-> "err", err |-> e, w |-> w]

\* io::Write::write_all: a sink of fixed size takes what fits and then fails
\* (WriteZero); `?` turns the failure into ErrorKind::Io.
write_all(w, bytes) ==
    IF w.cap = Unbounded \/ Len(w.data) + Len(bytes) <= w.cap
    THEN WOk([w EXCEPT !.data = w.data \o bytes])
    ELSE WErr(Io, [w EXCEPT !.data = w.data \o SubSeq(bytes, 1, w.cap - Len(w.data))])

\* `n as i16` of a usize n: the low 16 bits, read as two's complement.
AsI16(n) == ((n + 32768) % 65536) - 32768

\* `n as i32` of a usize n: the low 32 bits, read as two's complement.  No
\* sequence of the model has 2^31 elements, and below that the cast changes
\* nothing.
AsI32(n) == n

\* serialize_i8 .. serialize_u64, serialize_f64
serialize_int(w, ty, v) == write_all(w, to_be_bytes(ty, v))

\* A mutation of serialize_bool: true is written as 0xFF.
serialize_bool_ff(w, v) == serialize_int(w, "u8", IF v THEN 255 ELSE 0)

serialize_bool(w, v) == serialize_int(w, "u8", IF v THEN 1 ELSE 0)

\* A mutation of serialize_str: the length prefix counts itself.
serialize_str_counting_prefix(w, s) ==
    LET l == write_all(w, to_be_bytes("i16", AsI16(Len(s) + 2))) IN
    IF l.st # "ok" THEN l ELSE write_all(l.w, s)

serialize_str(w, s) ==
    LET l == write_all(w, to_be_bytes("i16", AsI16(Len(s)))) IN
    IF l.st # "ok" THEN l ELSE write_all(l.w, s)

\* The values that are answered with type_not_supported!, and the label each
\* carries (f32 and char carry the name of their own type).
UnsupportedValue ==
    [f32 |-> "f32", char |-> "char", raw_bytes |-> "bytes", unit |-> "ser-unit",
     unit_struct |-> "ser-unit-struct", unit_variant |-> "ser-unit-variant",
     newtype_variant |-> "ser-newtype-variant", tuple_struct |-> "ser-tuple-struct",
     tuple_variant |-> "ser-tuple-variant", map |-> "ser-map",
     struct_variant |-> "ser-struct-variant"]

serialize_unsupported(w, kind) == WErr(TypeNotSupported(UnsupportedValue[kind]), w)

RECURSIVE serialize(_, _)
RECURSIVE serialize_elements(_, _, _)
RECURSIVE serialize_elements_reversed(_, _, _)

\* A mutation of serialize_elements: the elements are written last first.
serialize_elements_reversed(w, vs, i) ==
    IF i > Len(vs) THEN WOk(w)
    ELSE LET r == serialize(w, vs[Len(vs) + 1 - i]) IN
         IF r.st # "ok" THEN r ELSE serialize_elements_reversed(r.w, vs, i + 1)

\* A mutation of serialize_elements: an element that fails is passed over and
\* the ones after it are still written; the first error is returned at the end.
RECURSIVE serialize_elements_skipping(_, _, _)
serialize_elements_skipping(w, vs, i) ==
    IF i > Len(vs) THEN WOk(w)
    ELSE LET r == serialize(w, vs[i])
             rest == serialize_elements_skipping(r.w, vs, i + 1)
         IN  IF r.st # "ok" THEN WErr(r.err, rest.w) ELSE rest

\* SerializeSeq / SerializeTuple::serialize_element and
\* SerializeStruct::serialize_field, called for element i and those after it,
\* then end().
serialize_elements(w, vs, i) ==
    IF i > Len(vs) THEN WOk(w)
    ELSE LET r == serialize(w, vs[i]) IN
         IF r.st # "ok" THEN r ELSE serialize_elements(r.w, vs, i + 1)

\* serialize_seq(Some(len)) and the elements (a Vec<T> or a slice).
serialize_seq(w, vs) ==
    LET l == write_all(w, to_be_bytes("i32", AsI32(Len(vs)))) IN
    IF l.st # "ok" THEN l ELSE serialize_elements(l.w, vs, 1)

\* serialize_tuple(len) and the elements (a tuple or an array).
serialize_tuple(w, vs) ==
    LET l == write_all(w, to_be_bytes("i32", AsI32(Len(vs)))) IN
    IF l.st # "ok" THEN l ELSE serialize_elements(l.w, vs, 1)

\* A mutation of serialize_struct: a record is framed like a sequence.
serialize_struct_counted(w, vs) == serialize_seq(w, vs)

\* serialize_struct(name, len) and the fields, in the order of declaration.
serialize_struct(w, vs) == serialize_elements(w, vs, 1)

\* A mutation of serialize_option: a presence byte goes before the value.
serialize_option_marked(w, vs) ==
    LET l == write_all(w, <<IF Len(vs) = 0 THEN 0 ELSE 1>>) IN
    IF l.st # "ok" \/ Len(vs) = 0 THEN l ELSE serialize(l.w, vs[1])

\* serialize_none / serialize_some
serialize_option(w, vs) == IF Len(vs) = 0 THEN WOk(w) ELSE serialize(w, vs[1])

\* value.serialize(&mut serializer): the call the value makes of the encoder.
serialize(w, val) ==
    CASE val.k = "bool" -> serialize_bool(w, val.v)
      [] val.k \in ScalarTypes \ {"bool"} -> serialize_int(w, val.k, val.v)
      [] val.k = "str" -> serialize_str(w, val.v)
      [] val.k = "seq" -> serialize_seq(w, val.v)
      [] val.k = "tuple" -> serialize_tuple(w, val.v)
      [] val.k = "struct" -> serialize_struct(w, val.v)
      [] val.k = "option" -> serialize_option(w, val.v)
      [] val.k = "newtype_struct" -> serialize(w, val.v)
      [] OTHER -> serialize_unsupported(w, val.k)

\* to_writer(writer, value)
to_writer(w, val) == serialize(w, val)

(***************************************************************************)
(* The inputs the model draws.                                             *)
(***************************************************************************)
MinI32 == -2147483647 - 1

ScalarSamples(ty) ==
    CASE ty = "bool" -> BOOLEAN
      [] ty = "i8" -> {-128, -1, 0, 1, 127}
      [] ty = "u8" -> {0, 1, 16, 255}
      [] ty = "i16" -> {-32768, -256, -1, 0, 1, 256, 32767}
      [] ty = "u16" -> {0, 1, 16, 256, 65535}
      [] ty = "i32" -> {MinI32, -65536, -1, 0, 1, 16, 16777216, 2147483647}
      [] ty = "u32" -> {<<0, 0>>, <<0, 1>>, <<0, 16>>, <<1, 0>>, <<32768, 0>>, <<65535, 65535>>}
      [] OTHER -> {<<0, 0, 0, 0>>, <<0, 0, 0, 1>>, <<0, 0, 1, 0>>, <<1, 2, 3, 4>>,
                   <<32768, 0, 0, 0>>, <<65535, 65535, 65535, 65535>>}

Scalar(ty, x) == [k |-> ty, v |-> x]
Str(s) == [k |-> "str", v |-> s]

ScalarInputs == UNION {{Scalar(ty, x) : x \in ScalarSamples(ty)} : ty \in ScalarTypes}


\* The bytes the drawn strings are made of: NUL, "a", and the two bytes of
\* U+00E9.
StrBytes == {0, 97, 195, 169}

StrInputs == {Str(s) : s \in {t \in SeqsUpTo(StrBytes, MaxStr) : IsUtf8(t)}}

Vec(elem, vs) == [k |-> "seq", elem |-> elem, v |-> vs]
Tuple(vs) == [k |-> "tuple", v |-> vs]
Struct(vs) == [k |-> "struct", v |-> vs]

SeqInputs ==
    {Vec([k |-> "u16"], vs) : vs \in SeqsUpTo({Scalar("u16", 1), Scalar("u16", 258)}, MaxSeq)}
    \cup {Vec([k |-> "string"], vs) : vs \in SeqsUpTo({Str(<<>>), Str(<<97>>)}, MaxSeq)}

TupleInputs ==
    {Tuple(vs) : vs \in SeqsUpTo({Scalar("u32", <<0, 1>>)}, MaxSeq) \ {<<>>}}
    \cup {Tuple(<<Scalar("u8", 5), Scalar("i16", -2)>>)}

StructInputs ==
    {Struct(<<Scalar("i32", a), Scalar("i8", b)>>) : a \in {1, -2, 16777216}, b \in {2, -128}}
    \cup {Struct(<<Scalar("u8", 5), Scalar("bool", TRUE)>>),
          Struct(<<Scalar("i16", 3), Scalar("i32", 1), Str(<<97, 0>>)>>),
          Struct(<<Scalar("u8", 5), [k |-> "f32"], Scalar("u8", 6)>>),
          Struct(<<Vec([k |-> "u16"], <<Scalar("u16", 1)>>), Scalar("u8", 6)>>)}

OtherInputs ==
    {[k |-> "option", v |-> <<>>], [k |-> "option", v |-> <<Scalar("u32", <<0, 2>>)>>],
     [k |-> "option", v |-> <<Str(<<97>>)>>],
     [k |-> "newtype_struct", v |-> Scalar("u16", 258)]}
    \cup {[k |-> kind] : kind \in DOMAIN UnsupportedValue}

Inputs == ScalarInputs \cup StrInputs \cup SeqInputs \cup TupleInputs \cup StructInputs
          \cup OtherInputs

\* The type a value has, as the shape a decoder is asked for.  A string is
\* asked for as an owned String.
RECURSIVE ShapeOf(_)
ShapeOf(val) ==
    CASE val.k = "str" -> [k |-> "string"]
      [] val.k = "seq" -> [k |-> "seq", elem |-> val.elem]
      [] val.k = "tuple" -> [k |-> "tuple", elems |-> [i \in 1..Len(val.v) |-> ShapeOf(val.v[i])]]
      [] val.k = "struct" -> [k |-> "struct", fields |-> [i \in 1..Len(val.v) |-> ShapeOf(val.v[i])]]
      [] OTHER -> [k |-> val.k]

\* The value of a decoded result as the input value it would have come from.
RECURSIVE Plain(_)
Plain(val) ==
    CASE val.k \in {"seq", "tuple", "struct"} -> [i \in 1..Len(val.v) |-> Plain(val.v[i])]
      [] OTHER -> val.v

InputShapes(kind) == {ShapeOf(v) : v \in {x \in Inputs : x.k = kind}}

SeqShapes ==
    InputShapes("seq")
    \cup {[k |-> "seq", elem |-> [k |-> "u8"]]}

TupleShapes == InputShapes("tuple")

StructShapes ==
    InputShapes("struct")
    \cup {[k |-> "struct", fields |-> <<[k |-> "str"], [k |-> "bytes"]>>]}

\* What a writer holds before to_writer is called: nothing, or the four bytes
\* a caller reserves for the size of the message.
Writers ==
    {[data |-> <<>>, cap |-> c] : c \in {Unbounded} \cup 0..MaxCap}
    \cup {[data |-> <<0, 0, 0, 0>>, cap |-> Unbounded]}

RawBuffers == SeqsUpTo(ByteVals, MaxBuf)

(***************************************************************************)
(* The state machine.  A run is either a decoder over a drawn buffer, which *)
(* answers requests until one of them fails, or one to_writer call whose   *)
(* bytes are then handed to from_bytes::<T> for some T.                    *)
(***************************************************************************)
Started == [st |-> "ok", val |-> None, err |-> None, pos |-> 0]

\* No error is being displayed.
Idle == [stack |-> <<>>, out |-> "", st |-> "idle"]

InitDecoder ==
    /\ buf \in RawBuffers
    /\ pos = 0
    /\ writer = [data |-> <<>>, cap |-> Unbounded]
    /\ phase = "de"
    /\ op = "from_bytes"
    /\ arg = None
    /\ pos0 = 0
    /\ w0 = <<>>
    /\ res = Started
    /\ sent = None
    /\ fmt = Idle

InitSerializer ==
    /\ buf = <<>>
    /\ pos = 0
    /\ writer \in Writers
    /\ phase = "ser"
    /\ op = "new"
    /\ arg = None
    /\ pos0 = 0
    /\ w0 = <<>>
    /\ res = Started
    /\ sent = None
    /\ fmt = Idle

Init == InitDecoder \/ InitSerializer

\* to_writer(writer, value)
ToWriterOf(val) ==
    /\ LET r == to_writer(writer, val) IN
       /\ writer' = r.w
       /\ res' = [st |-> r.st, val |-> None, err |-> r.err, pos |-> 0]
    /\ op' = "to_writer"
    /\ arg' = val
    /\ w0' = writer.data
    /\ UNCHANGED <<buf, pos, phase, pos0, sent, fmt>>

\* A serializer that was just made and has not been used.
Unused == phase = "ser" /\ op = "new"

ToWriter == Unused /\ \E val \in Inputs : ToWriterOf(val)

\* from_bytes(buf) on the bytes a successful to_writer left in its writer,
\* which the caller takes out of it: KafkaDeserializer { buf, pos: 0 }
FromBytes ==
    /\ phase = "ser"
    /\ op = "to_writer"
    /\ res.st = "ok"
    /\ buf' = writer.data
    /\ pos' = 0
    /\ writer' = [writer EXCEPT !.data = <<>>]
    /\ sent' = arg
    /\ phase' = "de"
    /\ op' = "from_bytes"
    /\ arg' = None
    /\ pos0' = 0
    /\ res' = Started
    /\ UNCHANGED <<w0, fmt>>

\* One request of the decoder: the handler `name` asked for `shape`.  from_bytes
\* makes one request, for T; a visitor of a record, a tuple or a sequence makes
\* one after another for as long as they succeed, which is how the decoder
\* over a drawn buffer is driven.
Live ==
    /\ phase = "de"
    /\ res.st = "ok"
    /\ sent = None \/ op = "from_bytes"

Request(name, shape) ==
    /\ \E r \in {deserialize(shape, buf, pos, oc) : oc \in BOOLEAN} :
        /\ pos' = r.pos
        /\ res' = r
    /\ op' = name
    /\ arg' = shape
    /\ pos0' = pos
    /\ UNCHANGED <<buf, writer, phase, w0, sent, fmt>>

DeserializeBool == Live /\ Request("deserialize_bool", [k |-> "bool"])
DeserializeI8 == Live /\ Request("deserialize_i8", [k |-> "i8"])
DeserializeU8 == Live /\ Request("deserialize_u8", [k |-> "u8"])
DeserializeI16 == Live /\ Request("deserialize_i16", [k |-> "i16"])
DeserializeU16 == Live /\ Request("deserialize_u16", [k |-> "u16"])
DeserializeI32 == Live /\ Request("deserialize_i32", [k |-> "i32"])
DeserializeU32 == Live /\ Request("deserialize_u32", [k |-> "u32"])
DeserializeI64 == Live /\ Request("deserialize_i64", [k |-> "i64"])
DeserializeU64 == Live /\ Request("deserialize_u64", [k |-> "u64"])
DeserializeF64 == Live /\ Request("deserialize_f64", [k |-> "f64"])
DeserializeStr == Live /\ Request("deserialize_str", [k |-> "str"])
DeserializeString == Live /\ Request("deserialize_string", [k |-> "string"])
DeserializeBytes == Live /\ Request("deserialize_bytes", [k |-> "bytes"])
DeserializeSeq == Live /\ \E shape \in SeqShapes : Request("deserialize_seq", shape)
DeserializeTuple == Live /\ \E shape \in TupleShapes : Request("deserialize_tuple", shape)
DeserializeStruct == Live /\ \E shape \in StructShapes : Request("deserialize_struct", shape)
DeserializeUnsupported ==
    Live /\ \E kind \in DOMAIN Unsupported : Request("deserialize_" \o kind, [k |-> kind])

Next ==
    \/ ToWriter
    \/ FromBytes
    \/ DeserializeBool
    \/ DeserializeI8
    \/ DeserializeU8
    \/ DeserializeI16
    \/ DeserializeU16
    \/ DeserializeI32
    \/ DeserializeU32
    \/ DeserializeI64
    \/ DeserializeU64
    \/ DeserializeF64
    \/ DeserializeStr
    \/ DeserializeString
    \/ DeserializeBytes
    \/ DeserializeSeq
    \/ DeserializeTuple
    \/ DeserializeStruct
    \/ DeserializeUnsupported

Spec == Init /\ [][Next]_vars

(***************************************************************************)
(* Strings longer than an i16 can count: the same machine, with to_writer  *)
(* given strings on both sides of 2^15 and 2^16 bytes and from_bytes asked *)
(* for a string.                                                           *)
(***************************************************************************)
LongLens == {32767, 32768, 65535, 65536}

LongStrInputs == {Str([i \in 1..n |-> 97]) : n \in LongLens}

ToWriterLong == Unused /\ \E val \in StrInputs \cup LongStrInputs : ToWriterOf(val)

NextLong ==
    \/ ToWriterLong
    \/ FromBytes
    \/ DeserializeStr
    \/ DeserializeString

SpecLong == InitSerializer /\ [][NextLong]_vars

(***************************************************************************)
(* Length prefixes that are negative and not -1: the decoder alone, over   *)
(* buffers made of 0x00, 0xFD and 0xFF, so that a prefix can hold -3 (FF   *)
(* FD as an i16, FF FF FF FD as an i32) and other negative lengths.        *)
(***************************************************************************)
NegBytes == {0, 253, 255}

NegBuffers == SeqsUpTo(NegBytes, MaxBuf)

InitNegative ==
    /\ buf \in NegBuffers
    /\ pos = 0
    /\ writer = [data |-> <<>>, cap |-> Unbounded]
    /\ phase = "de"
    /\ op = "from_bytes"
    /\ arg = None
    /\ pos0 = 0
    /\ w0 = <<>>
    /\ res = Started
    /\ sent = None
    /\ fmt = Idle

NextDecode ==
    \/ DeserializeBool
    \/ DeserializeI8
    \/ DeserializeU8
    \/ DeserializeI16
    \/ DeserializeU16
    \/ DeserializeI32
    \/ DeserializeU32
    \/ DeserializeI64
    \/ DeserializeU64
    \/ DeserializeF64
    \/ DeserializeStr
    \/ DeserializeString
    \/ DeserializeBytes
    \/ DeserializeSeq
    \/ DeserializeTuple
    \/ DeserializeStruct
    \/ DeserializeUnsupported

SpecNegative == InitNegative /\ [][NextDecode]_vars

(***************************************************************************)
(* error.rs: impl Display for ErrorKind.  An error is displayed by a call  *)
(* of Display::fmt on it, which runs the arm of its variant.  fmt.stack    *)
(* holds the errors whose fmt calls have not returned, the innermost       *)
(* last; fmt.out is what has been written to the Formatter.  The thread's  *)
(* stack has room for MaxFmtDepth calls; one more aborts the process.      *)
(***************************************************************************)
MaxFmtDepth == 3

\* The Display of the io::Error a fixed-size writer fails write_all with.
IoMessage == "failed to write whole buffer"

CustomMessages == {"", "invalid length 1, expected 2 elements"}

ErrorKinds ==
    {Io, InvalidStringEncoding, NotEnoughBytes}
    \cup {InvalidBoolEncoding(b) : b \in 2..255}
    \cup {TypeNotSupported(Unsupported[kind]) : kind \in DOMAIN Unsupported}
    \cup {TypeNotSupported(UnsupportedValue[kind]) : kind \in DOMAIN UnsupportedValue}
    \cup {Custom(s) : s \in CustomMessages}

InitDisplay ==
    /\ buf = <<>>
    /\ pos = 0
    /\ writer = [data |-> <<>>, cap |-> Unbounded]
    /\ phase = "fmt"
    /\ op = "new"
    /\ arg = None
    /\ pos0 = 0
    /\ w0 = <<>>
    /\ res \in {Err(e, 0) : e \in ErrorKinds}
    /\ sent = None
    /\ fmt = Idle

\* The rest of the InvalidBoolEncoding arm of each call that waits for a
\* nested call to return: ", expected 0 or 1, found {b}".
RECURSIVE Unwind(_, _)
Unwind(stack, out) ==
    IF Len(stack) = 0 THEN out
    ELSE Unwind(SubSeq(stack, 1, Len(stack) - 1),
                out \o ", expected 0 or 1, found " \o ToString(stack[Len(stack)].byte))

\* The innermost call writes msg and returns, and so do the calls that waited
\* for it.
Return(msg) ==
    /\ fmt' = [stack |-> <<>>,
               out |-> Unwind(SubSeq(fmt.stack, 1, Len(fmt.stack) - 1), fmt.out \o msg),
               st |-> "done"]
    /\ UNCHANGED <<buf, pos, writer, phase, op, arg, pos0, w0, res, sent>>

\* The innermost call of fmt is on an error of variant kind.
Formatting(kind) ==
    /\ phase = "fmt"
    /\ fmt.st = "running"
    /\ fmt.stack[Len(fmt.stack)].kind = kind

\* format!("{}", err) / err.to_string(): the call of Display::fmt on the error.
DisplayError ==
    /\ phase = "fmt"
    /\ fmt.st = "idle"
    /\ res.st = "err"
    /\ fmt' = [stack |-> <<res.err>>, out |-> "", st |-> "running"]
    /\ UNCHANGED <<buf, pos, writer, phase, op, arg, pos0, w0, res, sent>>

\* ErrorKind::Io(ref ioerr) => write!(fmt, "io error: {}", ioerr)
FmtIo == Formatting("Io") /\ Return("io error: " \o IoMessage)

\* ErrorKind::InvalidBoolEncoding(b) =>
\*     write!(fmt, "{}, expected 0 or 1, found {}", self, b)
\* The first argument is self: its Display::fmt is called before anything is
\* written.
FmtInvalidBoolEncoding ==
    /\ Formatting("InvalidBoolEncoding")
    /\ fmt' = IF Len(fmt.stack) < MaxFmtDepth
              THEN [fmt EXCEPT !.stack = Append(fmt.stack, fmt.stack[Len(fmt.stack)])]
              ELSE [fmt EXCEPT !.st = "overflow"]
    /\ UNCHANGED <<buf, pos, writer, phase, op, arg, pos0, w0, res, sent>>

\* ErrorKind::InvalidStringEncoding => write!(fmt, "string not utf-8 encoded")
FmtInvalidStringEncoding ==
    Formatting("InvalidStringEncoding") /\ Return("string not utf-8 encoded")

\* ErrorKind::NotEnoughBytes => write!(fmt, "not enought bytes")
FmtNotEnoughBytes == Formatting("NotEnoughBytes") /\ Return("not enought bytes")

\* ErrorKind::TypeNotSupported(s) => write!(fmt, "not supported: {}", s)
FmtTypeNotSupported ==
    /\ Formatting("TypeNotSupported")
    /\ Return("not supported: " \o fmt.stack[Len(fmt.stack)].what)

\* ErrorKind::Custom(ref s) => s.fmt(fmt)
FmtCustom == Formatting("Custom") /\ Return(fmt.stack[Len(fmt.stack)].msg)

NextDisplay ==
    \/ DisplayError
    \/ FmtIo
    \/ FmtInvalidBoolEncoding
    \/ FmtInvalidStringEncoding
    \/ FmtNotEnoughBytes
    \/ FmtTypeNotSupported
    \/ FmtCustom

SpecDisplay == InitDisplay /\ [][NextDisplay]_vars

(***************************************************************************)
(* What the claims are stated with.                                        *)
(***************************************************************************)
ScalarOps == {"deserialize_" \o ty : ty \in ScalarTypes}

\* The bytes of buf that follow the position the last request started at.
Remaining == Len(buf) - pos0
At(i) == buf[pos0 + i]

\* A two-byte and a four-byte big-endian two's-complement number.
Signed16(hi, lo) == (IF hi >= 128 THEN hi - 256 ELSE hi) * 256 + lo
Signed32(b1, b2, b3, b4) ==
    (IF b1 >= 128 THEN b1 - 256 ELSE b1) * 16777216 + b2 * 65536 + b3 * 256 + b4

\* Bit j (bit 0 the least significant) of the two's-complement representation
\* of a value of type ty.
BitOf(ty, v, j) ==
    IF ty \in IntTypes
    THEN IF j >= 31 THEN (IF v < 0 THEN 1 ELSE 0) ELSE (v \div (2 ^ j)) % 2
    ELSE (v[Len(v) - (j \div 16)] \div (2 ^ (j % 16))) % 2

\* Bits 8*(w-1-i) .. 8*(w-i)-1 of v as a byte, for the byte at index i (from 0).
ByteOfBits(ty, v, i) ==
    LET lo == 8 * (size_of(ty) - 1 - i)
        bit(t) == BitOf(ty, v, lo + t)
    IN  bit(0) + 2 * bit(1) + 4 * bit(2) + 8 * bit(3) + 16 * bit(4) + 32 * bit(5)
        + 64 * bit(6) + 128 * bit(7)

\* v is a value of type ty.
InRange(ty, v) ==
    CASE ty \in {"i8"} -> -128 <= v /\ v <= 127
      [] ty \in {"u8"} -> 0 <= v /\ v <= 255
      [] ty \in {"i16"} -> -32768 <= v /\ v <= 32767
      [] ty \in {"u16"} -> 0 <= v /\ v <= 65535
      [] ty \in {"i32"} -> MinI32 <= v /\ v <= 2147483647
      [] OTHER -> Len(v) = size_of(ty) \div 2 /\ \A j \in 1..Len(v) : v[j] \in 0..65535

\* to_writer succeeded on a writer that held nothing.
Wrote(kinds) == op = "to_writer" /\ res.st = "ok" /\ w0 = <<>> /\ arg.k \in kinds

\* from_bytes::<T> ran on the bytes to_writer produced for a value of type T
\* (a string asked for as a String or as a &str).
CameBack(kinds) ==
    /\ phase = "de"
    /\ op # "from_bytes"
    /\ w0 = <<>>
    /\ sent.k \in kinds
    /\ arg = ShapeOf(sent) \/ (sent.k = "str" /\ arg.k = "str")

(***************************************************************************)
(* C1.  A value of i8, u8, i16, u16, i32, u32, i64, u64 or bool that       *)
(* to_writer encoded comes back from from_bytes as Ok of the same value,   *)
(* and the decoder consumes exactly the size_of bytes the encoder wrote.   *)
(***************************************************************************)
C1_ScalarRoundTrip ==
    CameBack(ScalarTypes \ {"f64"}) =>
        /\ res.st = "ok"
        /\ res.val = sent.v
        /\ Len(buf) = size_of(sent.k)
        /\ pos = Len(buf)

C1_Witness ==
    /\ CameBack({"i64"})
    /\ sent.v = <<32768, 0, 0, 0>>
    /\ res.st = "ok"
    /\ pos = 8

(***************************************************************************)
(* C2.  to_writer writes an integer of width w as exactly w bytes, byte i  *)
(* holding bits 8*(w-1-i) .. 8*(w-i)-1 of its two's-complement             *)
(* representation; a successful read of an integer type returns the value  *)
(* of that type whose representation is the w bytes read, most significant *)
(* first.  u32 16 is written as 00 00 00 10, and those bytes read as an    *)
(* i32 or a u32 give 16.                                                   *)
(***************************************************************************)
IntegerTypes == ScalarTypes \ {"bool", "f64"}

C2_BigEndian ==
    /\ Wrote(IntegerTypes) =>
        /\ Len(writer.data) = size_of(arg.k)
        /\ \A i \in 0..(size_of(arg.k) - 1) :
                writer.data[i + 1] = ByteOfBits(arg.k, arg.v, i)
    /\ (Wrote({"u32"}) /\ arg.v = <<0, 16>>) => writer.data = <<0, 0, 0, 16>>
    /\ (phase = "de" /\ op \in ScalarOps /\ arg.k \in IntegerTypes
            /\ Remaining >= size_of(arg.k)) =>
        /\ res.st = "ok"
        /\ InRange(arg.k, res.val)
        /\ \A i \in 0..(size_of(arg.k) - 1) : At(i + 1) = ByteOfBits(arg.k, res.val, i)
        /\ (arg.k = "i32" /\ SubSeq(buf, pos0 + 1, pos0 + 4) = <<0, 0, 0, 16>>) =>
                res.val = 16
        /\ (arg.k = "u32" /\ SubSeq(buf, pos0 + 1, pos0 + 4) = <<0, 0, 0, 16>>) =>
                res.val = <<0, 16>>

C2_Witness ==
    /\ CameBack({"u32"})
    /\ sent.v = <<0, 16>>
    /\ buf = <<0, 0, 0, 16>>
    /\ res.st = "ok"
    /\ res.val = <<0, 16>>

(***************************************************************************)
(* C3.  With at least one byte left, deserialize_bool consumes one byte b  *)
(* and gives false for 0, true for 1 and InvalidBoolEncoding(b) for every  *)
(* other b.                                                                *)
(***************************************************************************)
C3_BoolDecode ==
    (op = "deserialize_bool" /\ Remaining >= 1) =>
        /\ pos = pos0 + 1
        /\ At(1) = 0 => (res.st = "ok" /\ res.val = FALSE)
        /\ At(1) = 1 => (res.st = "ok" /\ res.val = TRUE)
        /\ At(1) \notin {0, 1} => (res.st = "err" /\ res.err = InvalidBoolEncoding(At(1)))

C3_Witness ==
    /\ op = "deserialize_bool"
    /\ pos0 > 0
    /\ Remaining >= 1
    /\ res.st = "err"
    /\ res.err = InvalidBoolEncoding(255)

(***************************************************************************)
(* C4.  deserialize_str and deserialize_string read a two-byte big-endian  *)
(* signed length L.  L = 0 and L = -1 give the empty string, the cursor    *)
(* two bytes further.  L > 0 with L bytes left gives exactly those bytes   *)
(* when they are UTF-8 and InvalidStringEncoding when they are not, the    *)
(* cursor 2 + L bytes further either way.  On every buffer the two forms   *)
(* end the same way and leave the cursor at the same place.                *)
(***************************************************************************)
StrOps == {"deserialize_str", "deserialize_string"}

C4_StringDecode ==
    /\ (op \in StrOps /\ Remaining >= 2) =>
        LET L == Signed16(At(1), At(2)) IN
        /\ L \in {0, -1} => (res.st = "ok" /\ res.val = <<>> /\ pos = pos0 + 2)
        /\ (L > 0 /\ L <= Remaining - 2) =>
            LET bytes == SubSeq(buf, pos0 + 3, pos0 + 2 + L) IN
            /\ pos = pos0 + 2 + L
            /\ IsUtf8(bytes) => (res.st = "ok" /\ res.val = bytes)
            /\ ~IsUtf8(bytes) => (res.st = "err" /\ res.err = InvalidStringEncoding)
    /\ op = "deserialize_str" =>
        \E oc \in BOOLEAN : res = deserialize_string(buf, pos0, oc)
    /\ op = "deserialize_string" =>
        \E oc \in BOOLEAN : res = deserialize_str(buf, pos0, oc)

C4_Witness ==
    /\ op = "deserialize_str"
    /\ pos0 > 0
    /\ Remaining > 2
    /\ Signed16(At(1), At(2)) = -1
    /\ res.st = "ok"
    /\ res.val = <<>>
    /\ pos = pos0 + 2

(***************************************************************************)
(* C5.  to_writer writes a string of n bytes as n + 2 bytes: a two-byte    *)
(* big-endian prefix whose value is n (read as an i16 or as a u16), then   *)
(* the n bytes unchanged; the empty string is written as 00 00.            *)
(***************************************************************************)
C5_StringEncode ==
    Wrote({"str"}) =>
        LET n == Len(arg.v) IN
        /\ Len(writer.data) = n + 2
        /\ \/ Signed16(writer.data[1], writer.data[2]) = n
           \/ writer.data[1] * 256 + writer.data[2] = n
        /\ SubSeq(writer.data, 3, n + 2) = arg.v
        /\ n = 0 => writer.data = <<0, 0>>

(***************************************************************************)
(* C6.  A non-empty string that to_writer encoded, of any length, comes    *)
(* back from from_bytes as Ok of the same string, asked for as a String or *)
(* as a &str.                                                              *)
(***************************************************************************)
C6_StringRoundTrip ==
    (CameBack({"str"}) /\ Len(sent.v) > 0) => (res.st = "ok" /\ res.val = sent.v)

(***************************************************************************)
(* C7.  deserialize_bytes reads a four-byte big-endian signed length L.    *)
(* L = 0 and L = -1 give an empty view, the cursor four bytes further;     *)
(* L > 0 with L bytes left gives buf[pos+4 .. pos+4+L], the cursor 4 + L   *)
(* bytes further.                                                          *)
(***************************************************************************)
C7_BytesDecode ==
    (op = "deserialize_bytes" /\ Remaining >= 4) =>
        LET L == Signed32(At(1), At(2), At(3), At(4)) IN
        /\ L \in {0, -1} => (res.st = "ok" /\ res.val = <<>> /\ pos = pos0 + 4)
        /\ (L > 0 /\ L <= Remaining - 4) =>
            /\ res.st = "ok"
            /\ Len(res.val) = L
            /\ res.val = SubSeq(buf, pos0 + 5, pos0 + 4 + L)
            /\ pos = pos0 + 4 + L

C7_Witness ==
    /\ op = "deserialize_bytes"
    /\ Remaining > 5
    /\ Signed32(At(1), At(2), At(3), At(4)) = 1
    /\ res.st = "ok"
    /\ res.val = <<At(5)>>
    /\ pos = pos0 + 5

(***************************************************************************)
(* C8.  deserialize_seq reads a four-byte big-endian signed count N and    *)
(* takes -1 for 0.  N = 0 and N = -1 give the empty sequence, the cursor   *)
(* four bytes further.  A sequence that decodes has N elements.  N > 0     *)
(* elements of a fixed-width integer type, all of them in the buffer, are  *)
(* returned in wire order, the cursor 4 + N * size_of bytes further.       *)
(***************************************************************************)
C8_SeqDecode ==
    (op = "deserialize_seq" /\ Remaining >= 4) =>
        LET N == Signed32(At(1), At(2), At(3), At(4))
            ty == arg.elem.k
        IN
        /\ N \in {0, -1} => (res.st = "ok" /\ res.val = <<>> /\ pos = pos0 + 4)
        /\ (res.st = "ok" /\ N # -1) => Len(res.val) = N
        /\ (ty \in {"u8", "u16"} /\ N > 0 /\ N <= (Remaining - 4) \div size_of(ty)) =>
            LET w == size_of(ty) IN
            /\ res.st = "ok"
            /\ Len(res.val) = N
            /\ \A i \in 1..N :
                res.val[i] = IF w = 1 THEN At(4 + i)
                             ELSE At(4 + 2 * i - 1) * 256 + At(4 + 2 * i)
            /\ pos = pos0 + 4 + N * w

C8_Witness ==
    /\ op = "deserialize_seq"
    /\ arg.elem.k = "u16"
    /\ buf = <<0, 0, 0, 2, 0, 1, 1, 2>>
    /\ res.st = "ok"
    /\ res.val = <<1, 258>>
    /\ pos = 8

(***************************************************************************)
(* C9.  to_writer writes a record as the encodings of its fields in the    *)
(* order of declaration, back to back and with nothing else (a record of   *)
(* an i32 and an i8 is five bytes); deserialize_struct asks for the fields *)
(* in the same order, each read from where the one before it ended.        *)
(***************************************************************************)
Fresh == [data |-> <<>>, cap |-> Unbounded]
Alone(val) == to_writer(Fresh, val).w.data

RECURSIVE Concat(_)
Concat(ss) == IF Len(ss) = 0 THEN <<>> ELSE Head(ss) \o Concat(Tail(ss))

\* The fields of `shapes` from the i-th on, decoded one request after another
\* from position p.
FieldByField(shapes, oc) ==
    LET r1 == deserialize(shapes[1], buf, pos0, oc)
        r2 == deserialize(shapes[2], buf, r1.pos, oc)
        r3 == deserialize(shapes[3], buf, r2.pos, oc)
    IN  CASE r1.st # "ok" -> r1
          [] r2.st # "ok" -> r2
          [] Len(shapes) = 2 -> Ok(<<r1.val, r2.val>>, r2.pos)
          [] r3.st # "ok" -> r3
          [] OTHER -> Ok(<<r1.val, r2.val, r3.val>>, r3.pos)

C9_RecordOrder ==
    /\ Wrote({"struct"}) =>
        /\ writer.data = Concat([i \in 1..Len(arg.v) |-> Alone(arg.v[i])])
        /\ ShapeOf(arg).fields = <<[k |-> "i32"], [k |-> "i8"]>> => Len(writer.data) = 5
    /\ op = "deserialize_struct" =>
        \E oc \in BOOLEAN : res = FieldByField(arg.fields, oc)
    /\ CameBack({"struct"}) => (res.st = "ok" /\ res.val = Plain(sent) /\ pos = Len(buf))

C9_Witness ==
    /\ CameBack({"struct"})
    /\ sent = Struct(<<Scalar("i32", 1), Scalar("i8", 2)>>)
    /\ buf = <<0, 0, 0, 1, 2>>
    /\ res.st = "ok"
    /\ res.val = <<1, 2>>
    /\ pos = 5

(***************************************************************************)
(* C10.  A read of bool, i8, u8, i16, u16, i32, u32, i64, u64 or f64 with  *)
(* fewer than size_of bytes left, none included, fails with                *)
(* NotEnoughBytes; no such read indexes past the end of the buffer or      *)
(* panics.                                                                 *)
(***************************************************************************)
C10_InsufficientBuffer ==
    op \in ScalarOps =>
        /\ res.st # "panic"
        /\ Remaining < size_of(arg.k) =>
            (res.st = "err" /\ res.err = NotEnoughBytes /\ pos = pos0)

C10_Witness ==
    /\ op = "deserialize_u64"
    /\ pos0 > 0
    /\ Remaining = 0
    /\ res.st = "err"
    /\ res.err = NotEnoughBytes

(***************************************************************************)
(* C11.  No decoder request panics: on every buffer and after every        *)
(* sequence of requests, a request returns Ok or one of the errors         *)
(* NotEnoughBytes, InvalidStringEncoding, InvalidBoolEncoding,             *)
(* TypeNotSupported and Custom, whatever 16-bit or 32-bit value a length   *)
(* prefix or a count holds.                                                *)
(***************************************************************************)
TypedErrors ==
    {"NotEnoughBytes", "InvalidStringEncoding", "InvalidBoolEncoding",
     "TypeNotSupported", "Custom"}

C11_NoPanicOnDecode ==
    (phase = "de" /\ op # "from_bytes") =>
        /\ res.st \in {"ok", "err"}
        /\ res.st = "err" => res.err.kind \in TypedErrors

(***************************************************************************)
(* C12.  to_writer of an absent optional succeeds and writes nothing;      *)
(* to_writer of Some(v) ends as to_writer of v does on the same writer and *)
(* writes exactly the bytes v alone is written as, with no marker before   *)
(* or after them (Some(2u32) is 00 00 00 02).                              *)
(***************************************************************************)
C12_OptionEncode ==
    (op = "to_writer" /\ arg.k = "option") =>
        /\ arg.v = <<>> => (res.st = "ok" /\ writer.data = w0)
        /\ arg.v # <<>> =>
            LET inner == to_writer([data |-> w0, cap |-> writer.cap], arg.v[1]) IN
            /\ res.st = inner.st
            /\ res.err = inner.err
            /\ writer.data = inner.w.data
            /\ writer.cap = Unbounded => writer.data = w0 \o Alone(arg.v[1])
        /\ (Wrote({"option"}) /\ arg.v = <<Scalar("u32", <<0, 2>>)>>) =>
            writer.data = <<0, 0, 0, 2>>

C12_Witness ==
    /\ op = "to_writer"
    /\ arg = [k |-> "option", v |-> <<Scalar("u32", <<0, 2>>)>>]
    /\ w0 = <<0, 0, 0, 0>>
    /\ res.st = "ok"
    /\ writer.data = <<0, 0, 0, 0, 0, 0, 0, 2>>

(***************************************************************************)
(* C13.  A decoder request for f32, char, unit, option, an owned byte      *)
(* buffer, a unit struct, a tuple struct, a map or an enum fails with      *)
(* TypeNotSupported and leaves the cursor where it was; to_writer of an    *)
(* f32, a char, raw bytes, unit, a unit struct, a tuple struct, a map or   *)
(* an enum variant of any form fails with TypeNotSupported and writes      *)
(* nothing.                                                                *)
(***************************************************************************)
UnsupportedRequests ==
    {"deserialize_" \o kind :
        kind \in {"f32", "char", "unit", "option", "byte_buf", "unit_struct",
                  "tuple_struct", "map", "enum"}}

UnsupportedKinds ==
    {"f32", "char", "raw_bytes", "unit", "unit_struct", "tuple_struct", "map",
     "unit_variant", "newtype_variant", "tuple_variant", "struct_variant"}

C13_Unsupported ==
    /\ (phase = "de" /\ op \in UnsupportedRequests) =>
        /\ res.st = "err"
        /\ res.err.kind = "TypeNotSupported"
        /\ pos = pos0
    /\ (op = "to_writer" /\ arg.k \in UnsupportedKinds) =>
        /\ res.st = "err"
        /\ res.err.kind = "TypeNotSupported"
        /\ writer.data = w0

C13_Witness ==
    /\ op = "deserialize_option"
    /\ pos0 > 0
    /\ Remaining > 0
    /\ res.st = "err"
    /\ res.err = TypeNotSupported("de-option")
    /\ pos = pos0

(***************************************************************************)
(* C14.  When to_writer of a record, a sequence or a tuple fails, the      *)
(* error is what to_writer returns and nothing is rolled back: the writer  *)
(* holds what it held before, then the count of a sequence or tuple, then  *)
(* the complete encodings of the elements before the failing one, in       *)
(* order, and nothing of the elements after it.                            *)
(*                                                                         *)
(* C14_NoRollback says that nothing of the failing element is in the       *)
(* writer either.  C14_NoRollbackPartial allows the bytes the failing      *)
(* element wrote before it failed: a writer of fixed size takes the bytes  *)
(* that fit before write_all fails, and an element that is itself a        *)
(* record has written its fields up to the one that failed.  It also says  *)
(* that an element that cannot be encoded makes the whole call fail.       *)
(***************************************************************************)
Aggregates == {"struct", "seq", "tuple"}

\* to_writer of val on a growable writer that holds nothing succeeds.
Encodable(val) == to_writer(Fresh, val).st = "ok"

\* The count a sequence or a tuple of val's length is written with.
Frame(val) == IF val.k \in {"seq", "tuple"} THEN <<0, 0, 0, Len(val.v)>> ELSE <<>>

IsPrefix(p, s) == Len(p) <= Len(s) /\ p = SubSeq(s, 1, Len(p))

\* What the writer holds once the elements before the i-th are written.
Before(i) == w0 \o Frame(arg) \o Concat([j \in 1..(i - 1) |-> Alone(arg.v[j])])

FailedAggregate == op = "to_writer" /\ arg.k \in Aggregates /\ res.st = "err"

C14_NoRollback ==
    FailedAggregate =>
        \/ IsPrefix(writer.data, w0 \o Frame(arg)) /\ IsPrefix(w0, writer.data)
        \/ \E i \in 1..Len(arg.v) :
                /\ \A j \in 1..(i - 1) : Encodable(arg.v[j])
                /\ writer.data = Before(i)

C14_NoRollbackPartial ==
    /\ FailedAggregate =>
        /\ res.err.kind \in {"Io", "TypeNotSupported"}
        /\ \/ /\ IsPrefix(w0, writer.data)
              /\ IsPrefix(writer.data, w0 \o Frame(arg))
              /\ writer.data # w0 \o Frame(arg)
              /\ res.err = Io
           \/ \E i \in 1..Len(arg.v) :
                /\ \A j \in 1..(i - 1) : Encodable(arg.v[j])
                /\ IsPrefix(Before(i), writer.data)
                /\ LET part == SubSeq(writer.data, Len(Before(i)) + 1, Len(writer.data)) IN
                   /\ IsPrefix(part, Alone(arg.v[i]))
                   /\ Encodable(arg.v[i]) => (part # Alone(arg.v[i]) /\ res.err = Io)
                   /\ ~Encodable(arg.v[i]) =>
                        (part # Alone(arg.v[i]) => res.err = Io)
    /\ (op = "to_writer" /\ arg.k \in Aggregates
            /\ \E i \in 1..Len(arg.v) : ~Encodable(arg.v[i])) =>
        res.st = "err"

C14_Witness ==
    /\ op = "to_writer"
    /\ arg = Vec([k |-> "u16"], <<Scalar("u16", 1), Scalar("u16", 258)>>)
    /\ w0 = <<>>
    /\ writer.cap = 7
    /\ res.st = "err"
    /\ res.err = Io
    /\ writer.data = <<0, 0, 0, 2, 0, 1, 1>>

(***************************************************************************)
(* C15.  The cursor only moves forward and stays in the buffer: every      *)
(* decoder request, whether it succeeds or fails, leaves the position no   *)
(* smaller than it found it and no larger than the length of the buffer.   *)
(***************************************************************************)
C15_ForwardOnly ==
    phase = "de" =>
        /\ pos0 <= pos
        /\ pos <= Len(buf)

(***************************************************************************)
(* C16.  The encoder and the decoder frame aggregates alike: a Vec, a      *)
(* tuple or an array of fixed-width elements that to_writer encoded comes  *)
(* back from from_bytes, asked for the same type, as Ok of the same value. *)
(***************************************************************************)
RECURSIVE FixedWidth(_)
FixedWidth(val) ==
    \/ val.k \in ScalarTypes
    \/ val.k \in {"seq", "tuple"} /\ \A i \in 1..Len(val.v) : FixedWidth(val.v[i])

C16_AggregateFraming ==
    (CameBack({"seq", "tuple"}) /\ FixedWidth(sent)) =>
        /\ res.st = "ok"
        /\ res.val = Plain(sent)

(***************************************************************************)
(* C17.  Displaying an error terminates: for every variant of ErrorKind,   *)
(* Display::fmt returns after a bounded number of steps with a finite      *)
(* message, and it never calls itself on the error it is displaying.       *)
(***************************************************************************)
C17_DisplayTerminates ==
    phase = "fmt" =>
        /\ Len(fmt.stack) <= 1
        /\ fmt.st # "overflow"

====
